---- MODULE Spec2Model ----
(***************************************************************************)
(* A-Query RAG: the in-process retrieval engine of                         *)
(* src/app/naoma/architectures/aquery_rag.py (class AQueryRAG and its      *)
(* BM25 fallback index _BM25).                                             *)
(*                                                                         *)
(* Texts, queries and ids are sequences of one-character strings, so that  *)
(* tokenization, sentence splitting and id formatting are computed         *)
(* character by character as the regular expressions of the source do.     *)
(* Python's 0-based list positions are 1-based sequence positions here.    *)
(***************************************************************************)
EXTENDS Integers, Sequences, FiniteSets, TLC

VARIABLES docs, _tfidf_vectorizer, _tfidf_matrix, _bm25, call, pre, writer, reader

vars == <<docs, _tfidf_vectorizer, _tfidf_matrix, _bm25, call, pre, writer, reader>>

(***************************************************************************)
(* Bounds of the model.                                                    *)
(***************************************************************************)
\* the corpus never grows beyond MaxDocs documents
MaxDocs == 2
\* add_documents is called with at most MaxBatch entries
MaxBatch == 2

(***************************************************************************)
(* Generic helpers.                                                        *)
(***************************************************************************)
Min(a, b) == IF a <= b THEN a ELSE b

Max(a, b) == IF a >= b THEN a ELSE b

Range(s) == {s[i] : i \in 1..Len(s)}

RECURSIVE SumSeq(_)
SumSeq(s) == IF s = <<>> THEN 0 ELSE Head(s) + SumSeq(Tail(s))

SeqsUpTo(S, n) == UNION {[1..k -> S] : k \in 0..n}

IsPrefix(s, t) == Len(s) <= Len(t) /\ SubSeq(t, 1, Len(s)) = s

\* Python's None
None == [kind |-> "None"]

(***************************************************************************)
(* Characters.                                                             *)
(***************************************************************************)
Whitespace == {" ", "\t"}

Terminal == {".", "!", "?"}

\* str.lower(), character by character
Lower(c) ==
    CASE c = "A" -> "a" [] c = "B" -> "b" [] c = "C" -> "c" [] c = "D" -> "d"
      [] c = "T" -> "t" [] OTHER -> c

\* the character class [A-Za-zÀ-ÿ0-9'] of _tokenize, on lowered text
LowerLetters ==
    {"a", "b", "c", "d", "e", "f", "g", "h", "i", "j", "k", "l", "m", "n", "o", "p",
     "q", "r", "s", "t", "u", "v", "w", "x", "y", "z"}

Digits == {"0", "1", "2", "3", "4", "5", "6", "7", "8", "9"}

TokenChars == LowerLetters \cup Digits \cup {"'"}

RECURSIVE LStrip(_)
LStrip(s) == IF s # <<>> /\ Head(s) \in Whitespace THEN LStrip(Tail(s)) ELSE s

RECURSIVE RStrip(_)
RStrip(s) ==
    IF s # <<>> /\ s[Len(s)] \in Whitespace THEN RStrip(SubSeq(s, 1, Len(s) - 1)) ELSE s

\* str.strip()
Strip(s) == RStrip(LStrip(s))

(***************************************************************************)
(* _tokenize: re.findall(r"[A-Za-z...0-9']{2,}", text.lower()): the maximal *)
(* runs of token characters of length at least two, lowered, in order.     *)
(***************************************************************************)
FlushRun(run) == IF Len(run) >= 2 THEN <<run>> ELSE <<>>

RECURSIVE TokenizeFrom(_, _, _)
TokenizeFrom(s, i, run) ==
    IF i > Len(s) THEN FlushRun(run)
    ELSE IF Lower(s[i]) \in TokenChars
         THEN TokenizeFrom(s, i + 1, Append(run, Lower(s[i])))
         ELSE FlushRun(run) \o TokenizeFrom(s, i + 1, <<>>)

_tokenize(text) == TokenizeFrom(text, 1, <<>>)

(***************************************************************************)
(* _sentences: re.split(r"(?<=[.!?])\s+", text.strip()), each part         *)
(* stripped, empty parts dropped.                                          *)
(***************************************************************************)
RECURSIVE SkipSpaces(_, _)
SkipSpaces(s, i) == IF i <= Len(s) /\ s[i] \in Whitespace THEN SkipSpaces(s, i + 1) ELSE i

RECURSIVE SplitFrom(_, _, _)
SplitFrom(s, i, cur) ==
    IF i > Len(s) THEN <<cur>>
    ELSE IF s[i] \in Whitespace /\ i > 1 /\ s[i - 1] \in Terminal
         THEN <<cur>> \o SplitFrom(s, SkipSpaces(s, i), <<>>)
         ELSE SplitFrom(s, i + 1, Append(cur, s[i]))

RECURSIVE DropEmpty(_)
DropEmpty(parts) ==
    IF parts = <<>> THEN <<>>
    ELSE IF Strip(Head(parts)) # <<>>
         THEN <<Strip(Head(parts))>> \o DropEmpty(Tail(parts))
         ELSE DropEmpty(Tail(parts))

_sentences(text) == DropEmpty(SplitFrom(Strip(text), 1, <<>>))

(***************************************************************************)
(* _best_excerpt (lines 118-133): the first sentence with the highest      *)
(* overlap (best_score starts at -1, a later sentence wins only when       *)
(* strictly greater), the stripped text when that is empty, whitespace     *)
(* runs collapsed, truncated to max_chars with an ellipsis.                *)
(***************************************************************************)
Ellipsis == "<U+2026>"

Overlap(q, s) == Cardinality(q \cap Range(_tokenize(s)))

\* BestLoop with >= for >: the last sentence of the highest overlap wins
RECURSIVE BestLoopLastWins(_, _, _, _)
BestLoopLastWins(sents, q, best, best_score) ==
    IF sents = <<>> THEN best
    ELSE IF Overlap(q, Head(sents)) >= best_score
         THEN BestLoopLastWins(Tail(sents), q, Head(sents), Overlap(q, Head(sents)))
         ELSE BestLoopLastWins(Tail(sents), q, best, best_score)

RECURSIVE BestLoop(_, _, _, _)
BestLoop(sents, q, best, best_score) ==
    IF sents = <<>> THEN best
    ELSE IF Overlap(q, Head(sents)) > best_score
         THEN BestLoop(Tail(sents), q, Head(sents), Overlap(q, Head(sents)))
         ELSE BestLoop(Tail(sents), q, best, best_score)

\* re.sub(r"\s+", " ", s)
RECURSIVE CollapseWs(_)
CollapseWs(s) ==
    IF s = <<>> THEN <<>>
    ELSE IF Head(s) \in Whitespace
         THEN <<" ">> \o CollapseWs(SubSeq(s, SkipSpaces(s, 1), Len(s)))
         ELSE <<Head(s)>> \o CollapseWs(Tail(s))

\* s[:k] of Python, k of either sign
SliceTo(s, k) ==
    IF k >= 0 THEN SubSeq(s, 1, Min(k, Len(s))) ELSE SubSeq(s, 1, Max(Len(s) + k, 0))

\* Truncate keeping max_chars characters before the ellipsis
TruncateOffByOne(best, max_chars) ==
    IF Len(best) > max_chars THEN Append(SliceTo(best, max_chars), Ellipsis) ELSE best

\* lines 131-133
Truncate(best, max_chars) ==
    IF Len(best) > max_chars THEN Append(SliceTo(best, max_chars - 1), Ellipsis) ELSE best

\* lines 120-130: the selected string, before truncation
SelectedExcerpt(text, query) ==
    LET q == Range(_tokenize(query))
        found == BestLoop(_sentences(text), q, <<>>, -1)
        best == IF found = <<>> THEN Strip(text) ELSE found
    IN  CollapseWs(best)

_best_excerpt(text, query, max_chars) == Truncate(SelectedExcerpt(text, query), max_chars)

(***************************************************************************)
(* semantic_compress (lines 103-116): the sentences scored by overlap,     *)
(* sorted by (-overlap, -length) with list.sort, which is stable, the      *)
(* first max_sentences of them kept when their overlap is positive, and    *)
(* the first max_sentences sentences of the text when none is kept.        *)
(***************************************************************************)
\* KeyBelow on the overlap alone: key=lambda x: -x[0]
KeyBelowOverlapOnly(x, y) == x.overlap > y.overlap

\* the key (-x.overlap, -len(x.s)) of x strictly below that of y
KeyBelow(x, y) ==
    \/ x.overlap > y.overlap
    \/ x.overlap = y.overlap /\ Len(x.s) > Len(y.s)

\* x inserted after every element whose key is not above its own
RECURSIVE InsertSorted(_, _)
InsertSorted(sorted, x) ==
    IF sorted = <<>> THEN <<x>>
    ELSE IF KeyBelow(x, Head(sorted)) THEN <<x>> \o sorted
    ELSE <<Head(sorted)>> \o InsertSorted(Tail(sorted), x)

\* scored.sort(key=...): a stable sort
RECURSIVE SortScored(_, _)
SortScored(scored, sorted) ==
    IF scored = <<>> THEN sorted
    ELSE SortScored(Tail(scored), InsertSorted(sorted, Head(scored)))

\* JoinSpace without the separator: "".join(keep)
RECURSIVE JoinEmpty(_)
JoinEmpty(keep) == IF keep = <<>> THEN <<>> ELSE Head(keep) \o JoinEmpty(Tail(keep))

\* " ".join(keep)
RECURSIVE JoinSpace(_)
JoinSpace(keep) ==
    IF keep = <<>> THEN <<>>
    ELSE IF Len(keep) = 1 THEN Head(keep)
    ELSE Head(keep) \o <<" ">> \o JoinSpace(Tail(keep))

\* the list comprehension of line 113
KeepPositive(top) ==
    LET pos == SelectSeq(top, LAMBDA x : x.overlap > 0)
    IN  [i \in 1..Len(pos) |-> pos[i].s]

\* semantic_compress whose fallback is every sentence of the text
SemanticCompressUnslicedFallback(text, query, max_sentences) ==
    LET q == Range(_tokenize(query))
        sent == _sentences(text)
        scored == [i \in 1..Len(sent) |-> [overlap |-> Overlap(q, sent[i]), s |-> sent[i]]]
        kept == KeepPositive(SliceTo(SortScored(scored, <<>>), max_sentences))
        keep == IF kept = <<>> THEN sent ELSE kept
    IN  [compressed |-> JoinSpace(keep), sentences |-> keep, max_sentences |-> max_sentences]

semantic_compress(text, query, max_sentences) ==
    LET q == Range(_tokenize(query))
        sent == _sentences(text)
        scored == [i \in 1..Len(sent) |-> [overlap |-> Overlap(q, sent[i]), s |-> sent[i]]]
        kept == KeepPositive(SliceTo(SortScored(scored, <<>>), max_sentences))
        keep == IF kept = <<>> THEN SliceTo(sent, max_sentences) ELSE kept
    IN  [compressed |-> JoinSpace(keep), sentences |-> keep, max_sentences |-> max_sentences]

\* the default of max_sentences
DefaultMaxSentences == 5

\* the default of max_chars, used by search
DefaultMaxChars == 320

(***************************************************************************)
(* _BM25 (lines 136-173).  Scores are real numbers in the source; here a   *)
(* score is the integer floor of ScoreScale * 10^4 times the real value:   *)
(* ln is read from a table of 10^4 * ln(n), and k1 = 3/2, b = 3/4 are kept  *)
(* as fractions so that each term is one integer division.                 *)
(***************************************************************************)
K1Num == 3

K1Den == 2

BNum == 3

BDen == 4

ScoreScale == 10

\* round(10^4 * ln(n)), n = 1..32
LnTable ==
    <<0, 6931, 10986, 13863, 16094, 17918, 19459, 20794, 21972, 23026, 23979,
      24849, 25649, 26391, 27081, 27726, 28332, 28904, 29444, 29957, 30445,
      30910, 31355, 31781, 32189, 32581, 32958, 33322, 33673, 34012, 34340,
      34657>>

\* Idf without the 1 + : ln((N - f + 0.5) / (f + 0.5)), the idf of Robertson
\* and Sparck Jones
IdfWithoutOne(N, f) == LnTable[2 * (N - f) + 1] - LnTable[2 * f + 1]

\* math.log(1 + (N - f + 0.5) / (f + 0.5)) = ln((2N + 2) / (2f + 1)), times 10^4
Idf(N, f) == LnTable[2 * N + 2] - LnTable[2 * f + 1]

\* df: the number of tokenized documents holding the term
DocFreq(tokenized, term) == Cardinality({i \in 1..Len(tokenized) : term \in Range(tokenized[i])})

Terms(tokenized) == UNION {Range(tokenized[i]) : i \in 1..Len(tokenized)}

\* BM25_from_docs leaving out the texts without a token
BM25_from_docsSkipsEmpty(texts) ==
    LET all == [i \in 1..Len(texts) |-> _tokenize(texts[i])]
        tokenized == SelectSeq(all, LAMBDA d : d # <<>>)
        N == IF Len(tokenized) = 0 THEN 1 ELSE Len(tokenized)
    IN  [kind |-> "_BM25",
         docs |-> tokenized,
         idf |-> [t \in Terms(tokenized) |-> Idf(N, DocFreq(tokenized, t))],
         avgdl |-> [num |-> SumSeq([i \in 1..Len(tokenized) |-> Len(tokenized[i])]),
                    den |-> Max(Len(tokenized), 1)]]

BM25_from_docs(texts) ==
    LET tokenized == [i \in 1..Len(texts) |-> _tokenize(texts[i])]
        N == IF Len(tokenized) = 0 THEN 1 ELSE Len(tokenized)
    IN  [kind |-> "_BM25",
         docs |-> tokenized,
         idf |-> [t \in Terms(tokenized) |-> Idf(N, DocFreq(tokenized, t))],
         avgdl |-> [num |-> SumSeq([i \in 1..Len(tokenized) |-> Len(tokenized[i])]),
                    den |-> Max(Len(tokenized), 1)]]

\* tf[t]: the occurrences of t in the tokenized document
TermFreq(doc, t) == Cardinality({i \in 1..Len(doc) : doc[i] = t})

\* (self.avgdl or 1.0), as a fraction
AvgDl(bm) == IF bm.avgdl.num = 0 THEN [num |-> 1, den |-> 1] ELSE bm.avgdl

\* denom of line 170, f + k1 * (1 - b + b * dl / avgdl), times the positive
\* integer K1Den * BDen * avg.num that clears its fractions
Denom(bm, doc, f) ==
    LET dl == IF Len(doc) = 0 THEN 1 ELSE Len(doc)
        avg == AvgDl(bm)
    IN  f * K1Den * BDen * avg.num
          + K1Num * (BDen - BNum) * avg.num
          + K1Num * BNum * dl * avg.den

\* ScoreTerm without the term frequency in the numerator
ScoreTermWithoutTf(bm, doc, t) ==
    LET f == TermFreq(doc, t)
        idf == IF t \in DOMAIN bm.idf THEN bm.idf[t] ELSE 0
    IN  IF f = 0 THEN 0
        ELSE (idf * (K1Num + K1Den) * BDen * AvgDl(bm).num * ScoreScale)
               \div Denom(bm, doc, f)

\* one summand of score: idf * (f * (k1 + 1)) / denom; the 1e-9 added to the
\* denominator is below the resolution kept here
ScoreTerm(bm, doc, t) ==
    LET f == TermFreq(doc, t)
        idf == IF t \in DOMAIN bm.idf THEN bm.idf[t] ELSE 0
    IN  IF f = 0 THEN 0
        ELSE (idf * f * (K1Num + K1Den) * BDen * AvgDl(bm).num * ScoreScale)
               \div Denom(bm, doc, f)

DocScore(bm, doc, q_terms) == SumSeq([j \in 1..Len(q_terms) |-> ScoreTerm(bm, doc, q_terms[j])])

\* BM25_score iterating over the characters of the query ("for t in query")
BM25_scoreOverCharacters(bm, query) ==
    [i \in 1..Len(bm.docs) |->
        DocScore(bm, bm.docs[i], [j \in 1..Len(query) |-> <<query[j]>>])]

BM25_score(bm, query) ==
    [i \in 1..Len(bm.docs) |-> DocScore(bm, bm.docs[i], _tokenize(query))]

(***************************************************************************)
(* Inputs: texts, queries and candidate entries.  An entry is a Python     *)
(* dict, here a function whose domain is the set of keys it carries.       *)
(***************************************************************************)
\* "ab"
T_ab == <<"a", "b">>

\* "ab ab"
T_abab == <<"a", "b", " ", "a", "b">>

\* "Cd. ab"
T_Cd_ab == <<"C", "d", ".", " ", "a", "b">>

\* "a": no token of two characters
T_a == <<"a">>

\* "cd"
T_cd == <<"c", "d">>

Entries ==
    { [text |-> T_ab],
      [text |-> T_abab, id |-> <<"x">>, source |-> <<"s">>],
      [text |-> T_Cd_ab, id |-> <<>>, source |-> <<>>],
      [text |-> T_a, id |-> <<"d", "o", "c", "_", "2">>],
      [id |-> <<"x">>, source |-> <<"s">>] }

Queries == {T_ab, T_a, T_cd}

TopKs == {-1, 0, 1, 2}

(***************************************************************************)
(* add_documents, lines 34-51.                                             *)
(***************************************************************************)
DigitChars == <<"0", "1", "2", "3", "4", "5", "6", "7", "8", "9">>

\* str(n) for n >= 0
RECURSIVE Decimal(_)
Decimal(n) == IF n < 10 THEN <<DigitChars[n + 1]>> ELSE Append(Decimal(n \div 10), DigitChars[(n % 10) + 1])

\* f"doc_{n}"
DefaultId(n) == <<"d", "o", "c", "_">> \o Decimal(n)

\* StoredDoc with one default id for every document
StoredDocFixedDefault(d, len_docs) ==
    [id |-> IF "id" \in DOMAIN d /\ d.id # <<>> THEN d.id ELSE DefaultId(1),
     text |-> d.text,
     source |-> IF "source" \in DOMAIN d THEN d.source ELSE <<>>]

\* StoredDoc numbering the default id from 0 (a forgotten + 1)
StoredDocZeroBased(d, len_docs) ==
    [id |-> IF "id" \in DOMAIN d /\ d.id # <<>> THEN d.id ELSE DefaultId(len_docs),
     text |-> d.text,
     source |-> IF "source" \in DOMAIN d THEN d.source ELSE <<>>]

\* the dict appended at lines 42-48, len_docs being len(self.docs) before it:
\* d.get("id") or f"doc_{len(self.docs)+1}" takes the default for a missing
\* and for an empty id alike
StoredDoc(d, len_docs) ==
    [id |-> IF "id" \in DOMAIN d /\ d.id # <<>> THEN d.id ELSE DefaultId(len_docs + 1),
     text |-> d.text,
     source |-> IF "source" \in DOMAIN d THEN d.source ELSE <<>>]

\* AppendLoop counting the skipped entries as added
RECURSIVE AppendLoopCountsSkipped(_, _, _)
AppendLoopCountsSkipped(ds, documents, added) ==
    IF documents = <<>> THEN [docs |-> ds, added |-> added]
    ELSE IF "text" \notin DOMAIN Head(documents)
         THEN AppendLoopCountsSkipped(ds, Tail(documents), added + 1)
         ELSE AppendLoopCountsSkipped(Append(ds, StoredDoc(Head(documents), Len(ds))),
                                      Tail(documents), added + 1)

\* AppendLoop inserting at the head of the corpus (insert(0, ...) for append)
RECURSIVE AppendLoopPrepends(_, _, _)
AppendLoopPrepends(ds, documents, added) ==
    IF documents = <<>> THEN [docs |-> ds, added |-> added]
    ELSE IF "text" \notin DOMAIN Head(documents)
         THEN AppendLoopPrepends(ds, Tail(documents), added)
         ELSE AppendLoopPrepends(<<StoredDoc(Head(documents), Len(ds))>> \o ds,
                                 Tail(documents), added + 1)

\* the loop of lines 38-49
RECURSIVE AppendLoop(_, _, _)
AppendLoop(ds, documents, added) ==
    IF documents = <<>> THEN [docs |-> ds, added |-> added]
    ELSE IF "text" \notin DOMAIN Head(documents)
         THEN AppendLoop(ds, Tail(documents), added)
         ELSE AppendLoop(Append(ds, StoredDoc(Head(documents), Len(ds))),
                         Tail(documents), added + 1)

(***************************************************************************)
(* _rebuild_indexes, lines 53-66.  scikit-learn is not part of the         *)
(* repository: whether the import and the fit succeed is an outcome of the *)
(* environment, drawn afresh at every rebuild.                             *)
(***************************************************************************)
\* "ok": the import, the constructor and fit_transform all succeed;
\* "error": an exception is raised inside the try block (the import of line
\* 56 when scikit-learn is missing, or lines 61-62)
DenseOutcomes == {"ok", "error"}

TextsOf(ds) == [i \in 1..Len(ds) |-> ds[i].text]

\* TfidfVectorizer(stop_words="english"), before and after fit_transform
NewVectorizer == [kind |-> "TfidfVectorizer", fitted |-> FALSE, texts |-> <<>>]

FittedVectorizer(texts) == [kind |-> "TfidfVectorizer", fitted |-> TRUE, texts |-> texts]

\* the matrix fit_transform returns: one row per text
FitMatrix(texts) == [kind |-> "matrix", rows |-> texts]

\* RebuildIndexes without line 63: the dense branch leaves the BM25 index in place
RebuildKeepsBm25(ds, old_bm25, outcome) ==
    IF outcome = "error"
    THEN [vectorizer |-> None, matrix |-> None, bm25 |-> BM25_from_docs(TextsOf(ds))]
    ELSE IF TextsOf(ds) = <<>>
    THEN [vectorizer |-> None, matrix |-> None, bm25 |-> old_bm25]
    ELSE [vectorizer |-> FittedVectorizer(TextsOf(ds)),
          matrix |-> FitMatrix(TextsOf(ds)),
          bm25 |-> old_bm25]

\* RebuildIndexes without line 66: the except branch builds no BM25 index
RebuildWithoutFallback(ds, old_bm25, outcome) ==
    IF outcome = "error"
    THEN [vectorizer |-> None, matrix |-> None, bm25 |-> old_bm25]
    ELSE IF TextsOf(ds) = <<>>
    THEN [vectorizer |-> None, matrix |-> None, bm25 |-> old_bm25]
    ELSE [vectorizer |-> FittedVectorizer(TextsOf(ds)),
          matrix |-> FitMatrix(TextsOf(ds)),
          bm25 |-> None]

\* RebuildIndexes keeping to BM25 once a BM25 index is held: the selection
\* is made once and not evaluated again
RebuildSticksToBm25(ds, old_bm25, outcome) ==
    IF outcome = "error" \/ old_bm25 # None
    THEN [vectorizer |-> None, matrix |-> None, bm25 |-> BM25_from_docs(TextsOf(ds))]
    ELSE IF TextsOf(ds) = <<>>
    THEN [vectorizer |-> None, matrix |-> None, bm25 |-> old_bm25]
    ELSE [vectorizer |-> FittedVectorizer(TextsOf(ds)),
          matrix |-> FitMatrix(TextsOf(ds)),
          bm25 |-> None]

\* the engine's index fields after _rebuild_indexes over corpus ds
RebuildIndexes(ds, old_bm25, outcome) ==
    IF outcome = "error"
    THEN [vectorizer |-> None, matrix |-> None, bm25 |-> BM25_from_docs(TextsOf(ds))]
    ELSE IF TextsOf(ds) = <<>>
    THEN [vectorizer |-> None, matrix |-> None, bm25 |-> old_bm25]
    ELSE [vectorizer |-> FittedVectorizer(TextsOf(ds)),
          matrix |-> FitMatrix(TextsOf(ds)),
          bm25 |-> None]

(***************************************************************************)
(* search, lines 68-101.                                                   *)
(***************************************************************************)
Perms(n) == {p \in [1..n -> 1..n] : \A i, j \in 1..n : i # j => p[i] # p[j]}

\* ArgSort that does not sort: any order of the positions
ArgSortAnyOrder(a) == Perms(Len(a))

\* np.argsort(a) with the default kind: an ascending order of a; NumPy
\* documents the default sort as not stable, so equal keys come in any order
ArgSort(a) == {p \in Perms(Len(a)) : \A i, j \in 1..Len(a) : i < j => a[p[i]] <= a[p[j]]}

\* Neg without the negation: np.argsort(scores), an ascending ranking
NegForgotten(a) == a

Neg(a) == [i \in 1..Len(a) |-> -a[i]]

\* the values an inner product of the dense index may take (scaled)
DenseScoreValues == {0, 1}

\* (self._tfidf_matrix @ qv.T).toarray().ravel(): one value per matrix row
DenseScores(mat) == [1..Len(mat.rows) -> DenseScoreValues]

Raised(exc) == [raised |-> exc]

\* the result entries built at lines 76-85 and 91-100
Results(ds, scores, idx, query) ==
    [k \in 1..Len(idx) |->
        [id |-> ds[idx[k]].id,
         source |-> ds[idx[k]].source,
         score |-> scores[idx[k]],
         excerpt |-> _best_excerpt(ds[idx[k]].text, query, DefaultMaxChars)]]

\* Ranked answering with the tag of the other backend
RankedTagSwapped(ds, scores, query, top_k, tag) ==
    {[scores |-> scores,
      idx |-> SliceTo(p, top_k),
      ret |-> [query |-> query, engine |-> IF tag = "bm25" THEN "tfidf" ELSE "bm25",
               results |-> Results(ds, scores, SliceTo(p, top_k), query)]] :
        p \in ArgSort(Neg(scores))}

\* Ranked answering without the engine tag
RankedUntagged(ds, scores, query, top_k, tag) ==
    {[scores |-> scores,
      idx |-> SliceTo(p, top_k),
      ret |-> [query |-> query,
               results |-> Results(ds, scores, SliceTo(p, top_k), query)]] :
        p \in ArgSort(Neg(scores))}

\* lines 75-86 and 90-101: rank by np.argsort(-scores)[:top_k] and answer
Ranked(ds, scores, query, top_k, tag) ==
    {[scores |-> scores,
      idx |-> SliceTo(p, top_k),
      ret |-> [query |-> query, engine |-> tag,
               results |-> Results(ds, scores, SliceTo(p, top_k), query)]] :
        p \in ArgSort(Neg(scores))}

NoRanking(ret) == [scores |-> <<>>, idx |-> <<>>, ret |-> ret]

\* SearchRuns without the early return of lines 69-70
SearchRunsNoEmptyCheck(ds, vec, mat, bm, query, top_k) ==
    IF vec # None /\ mat # None
    THEN IF ~vec.fitted THEN {NoRanking(Raised("NotFittedError"))}
         ELSE UNION {Ranked(ds, sc, query, top_k, "tfidf") : sc \in DenseScores(mat)}
                \cup (IF vec.texts # mat.rows THEN {NoRanking(Raised("ValueError"))} ELSE {})
    ELSE IF bm = None THEN {NoRanking(Raised("AttributeError"))}
    ELSE Ranked(ds, BM25_score(bm, query), query, top_k, "bm25")

\* the runs of search over the fields it reads: each run is what it returns
\* or raises, with its locals scores and idx
SearchRuns(ds, vec, mat, bm, query, top_k) ==
    IF ds = <<>> THEN {NoRanking([query |-> query, results |-> <<>>])}
    ELSE IF vec # None /\ mat # None
    THEN IF ~vec.fitted THEN {NoRanking(Raised("NotFittedError"))}
         ELSE UNION {Ranked(ds, sc, query, top_k, "tfidf") : sc \in DenseScores(mat)}
                \cup (IF vec.texts # mat.rows THEN {NoRanking(Raised("ValueError"))} ELSE {})
    ELSE IF bm = None THEN {NoRanking(Raised("AttributeError"))}
    ELSE Ranked(ds, BM25_score(bm, query), query, top_k, "bm25")

(***************************************************************************)
(* The engine, one caller at a time: every action is one whole call.       *)
(***************************************************************************)
Snapshot == [docs |-> docs, vectorizer |-> _tfidf_vectorizer,
             matrix |-> _tfidf_matrix, bm25 |-> _bm25]

Idle == [pc |-> "idle"]

\* AQueryRAG(): the dataclass defaults of lines 29-32
Init ==
    /\ docs = <<>>
    /\ _tfidf_vectorizer = None
    /\ _tfidf_matrix = None
    /\ _bm25 = None
    /\ call = [op |-> "init"]
    /\ pre = [docs |-> <<>>, vectorizer |-> None, matrix |-> None, bm25 |-> None]
    /\ writer = Idle
    /\ reader = Idle

\* AddReturn reporting the size of the batch as the total
AddReturnTotalOfBatch(added, ds) == [added |-> added, total |-> added]

\* line 51
AddReturn(added, ds) == [added |-> added, total |-> Len(ds)]

add_documents(documents, outcome) ==
    LET r == AppendLoop(docs, documents, 0)
        ix == RebuildIndexes(r.docs, _bm25, outcome)
    IN  /\ docs' = r.docs
        /\ _tfidf_vectorizer' = ix.vectorizer
        /\ _tfidf_matrix' = ix.matrix
        /\ _bm25' = ix.bm25
        /\ call' = [op |-> "add_documents", documents |-> documents, outcome |-> outcome,
                    ret |-> AddReturn(r.added, r.docs)]
        /\ pre' = Snapshot
        /\ UNCHANGED <<writer, reader>>

\* search dropping the dense matrix once it has answered from it
searchConsumesMatrix(query, top_k) ==
    /\ \E run \in SearchRuns(docs, _tfidf_vectorizer, _tfidf_matrix, _bm25, query, top_k) :
          call' = [op |-> "search", query |-> query, top_k |-> top_k,
                   scores |-> run.scores, idx |-> run.idx, ret |-> run.ret]
    /\ pre' = Snapshot
    /\ _tfidf_matrix' = None
    /\ UNCHANGED <<docs, _tfidf_vectorizer, _bm25, writer, reader>>

search(query, top_k) ==
    /\ \E run \in SearchRuns(docs, _tfidf_vectorizer, _tfidf_matrix, _bm25, query, top_k) :
          call' = [op |-> "search", query |-> query, top_k |-> top_k,
                   scores |-> run.scores, idx |-> run.idx, ret |-> run.ret]
    /\ pre' = Snapshot
    /\ UNCHANGED <<docs, _tfidf_vectorizer, _tfidf_matrix, _bm25, writer, reader>>

\* the entries of documents that carry a text
Accepted(documents) == {i \in 1..Len(documents) : "text" \in DOMAIN documents[i]}

\* the corpus is kept within MaxDocs documents
AddDocuments ==
    \E documents \in SeqsUpTo(Entries, MaxBatch) :
        /\ Len(docs) + Cardinality(Accepted(documents)) <= MaxDocs
        /\ \E outcome \in DenseOutcomes : add_documents(documents, outcome)

\* search assigns no field of the engine, so a search made right after a
\* search reaches the states the first one reaches: the inputs are drawn in
\* the states whose last call is not a search
Search ==
    /\ call.op # "search"
    /\ \E query \in Queries, top_k \in TopKs : search(query, top_k)

Next == AddDocuments \/ Search

Spec == Init /\ [][Next]_vars

(***************************************************************************)
(* The engine shared by two threads: one calls add_documents, the other    *)
(* search.  The class takes no lock, so the calls interleave statement by  *)
(* statement; writer and reader hold each thread's position and locals.    *)
(***************************************************************************)
\* the default of top_k, as NAOMAEvolutivo.analyze passes it
DefaultTopK == 5

\* line 34: the call is made
W_Call ==
    /\ writer.pc = "idle"
    /\ \E documents \in SeqsUpTo(Entries, MaxBatch) :
          /\ Len(docs) + Cardinality(Accepted(documents)) <= MaxDocs
          /\ writer' = [pc |-> "loop", pending |-> documents, added |-> 0]
    /\ UNCHANGED <<docs, _tfidf_vectorizer, _tfidf_matrix, _bm25, call, pre, reader>>

\* lines 39-49: one iteration of the loop, or its end
W_Loop ==
    /\ writer.pc = "loop"
    /\ IF writer.pending = <<>>
       THEN /\ writer' = [pc |-> "try", added |-> writer.added]
            /\ docs' = docs
       ELSE IF "text" \notin DOMAIN Head(writer.pending)
       THEN /\ writer' = [writer EXCEPT !.pending = Tail(@)]
            /\ docs' = docs
       ELSE /\ writer' = [writer EXCEPT !.pending = Tail(@), !.added = @ + 1]
            /\ docs' = Append(docs, StoredDoc(Head(writer.pending), Len(docs)))
    /\ UNCHANGED <<_tfidf_vectorizer, _tfidf_matrix, _bm25, call, pre, reader>>

\* lines 55-61: the import, the texts, the early return or the new vectorizer;
\* an exception of the import (line 56) or of the constructor (line 61) leaves
\* the fields as they are; writer.raised keeps the line where the try block
\* was left
W_Try ==
    /\ writer.pc = "try"
    /\ \E outcome \in DenseOutcomes :
          IF outcome = "error"
          THEN /\ writer' = [pc |-> "except", added |-> writer.added, raised |-> 56]
               /\ UNCHANGED <<_tfidf_vectorizer, _tfidf_matrix>>
          ELSE IF TextsOf(docs) = <<>>
          THEN /\ _tfidf_vectorizer' = None
               /\ _tfidf_matrix' = None
               /\ writer' = [writer EXCEPT !.pc = "return"]
          ELSE /\ _tfidf_vectorizer' = NewVectorizer
               /\ _tfidf_matrix' = _tfidf_matrix
               /\ writer' = [pc |-> "fit", added |-> writer.added, texts |-> TextsOf(docs)]
    /\ UNCHANGED <<docs, _bm25, call, pre, reader>>

\* line 62, the call: fit_transform fits the vectorizer in place, or raises
W_Fit ==
    /\ writer.pc = "fit"
    /\ \E outcome \in DenseOutcomes :
          IF outcome = "error"
          THEN /\ writer' = [pc |-> "except", added |-> writer.added, raised |-> 62]
               /\ _tfidf_vectorizer' = _tfidf_vectorizer
          ELSE /\ writer' = [writer EXCEPT !.pc = "store"]
               /\ _tfidf_vectorizer' = FittedVectorizer(writer.texts)
    /\ UNCHANGED <<docs, _tfidf_matrix, _bm25, call, pre, reader>>

\* line 62, the assignment of the matrix
W_Store ==
    /\ writer.pc = "store"
    /\ _tfidf_matrix' = FitMatrix(writer.texts)
    /\ writer' = [pc |-> "clear", added |-> writer.added]
    /\ UNCHANGED <<docs, _tfidf_vectorizer, _bm25, call, pre, reader>>

\* line 63
W_Clear ==
    /\ writer.pc = "clear"
    /\ _bm25' = None
    /\ writer' = [writer EXCEPT !.pc = "return"]
    /\ UNCHANGED <<docs, _tfidf_vectorizer, _tfidf_matrix, call, pre, reader>>

\* W_Except without the assignment of line 65
W_ExceptKeepsDense ==
    /\ writer.pc = "except"
    /\ writer' = [writer EXCEPT !.pc = "build"]
    /\ UNCHANGED <<docs, _tfidf_vectorizer, _tfidf_matrix, _bm25, call, pre, reader>>

\* line 65
W_Except ==
    /\ writer.pc = "except"
    /\ _tfidf_vectorizer' = None
    /\ _tfidf_matrix' = None
    /\ writer' = [writer EXCEPT !.pc = "build"]
    /\ UNCHANGED <<docs, _bm25, call, pre, reader>>

\* line 66
W_Build ==
    /\ writer.pc = "build"
    /\ _bm25' = BM25_from_docs(TextsOf(docs))
    /\ writer' = [writer EXCEPT !.pc = "return"]
    /\ UNCHANGED <<docs, _tfidf_vectorizer, _tfidf_matrix, call, pre, reader>>

\* line 51
W_Return ==
    /\ writer.pc = "return"
    /\ writer' = IF "raised" \in DOMAIN writer
                 THEN [pc |-> "idle", ret |-> AddReturn(writer.added, docs),
                       raised |-> writer.raised]
                 ELSE [pc |-> "idle", ret |-> AddReturn(writer.added, docs)]
    /\ UNCHANGED <<docs, _tfidf_vectorizer, _tfidf_matrix, _bm25, call, pre, reader>>

\* the reader's record when search has returned or raised
R_Done(ret) == [pc |-> "idle", query |-> reader.query, ret |-> ret]

\* line 68: the call is made
R_Call ==
    /\ reader.pc = "idle"
    /\ \E query \in Queries :
          reader' = [pc |-> "check", query |-> query, top_k |-> DefaultTopK]
    /\ UNCHANGED <<docs, _tfidf_vectorizer, _tfidf_matrix, _bm25, call, pre, writer>>

\* lines 69-70
R_Check ==
    /\ reader.pc = "check"
    /\ reader' = IF docs = <<>>
                 THEN R_Done([query |-> reader.query, results |-> <<>>])
                 ELSE [reader EXCEPT !.pc = "select"]
    /\ UNCHANGED <<docs, _tfidf_vectorizer, _tfidf_matrix, _bm25, call, pre, writer>>

\* line 72: the two dense fields are read and the branch is taken
R_Select ==
    /\ reader.pc = "select"
    /\ reader' = [pc |-> IF _tfidf_vectorizer # None /\ _tfidf_matrix # None
                         THEN "transform" ELSE "bm25",
                  query |-> reader.query, top_k |-> reader.top_k,
                  seen |-> [vectorizer |-> _tfidf_vectorizer, matrix |-> _tfidf_matrix,
                            bm25 |-> None]]
    /\ UNCHANGED <<docs, _tfidf_vectorizer, _tfidf_matrix, _bm25, call, pre, writer>>

\* line 73: the vectorizer is read again and transforms the query
R_Transform ==
    /\ reader.pc = "transform"
    /\ reader' = IF _tfidf_vectorizer = None THEN R_Done(Raised("AttributeError"))
                 ELSE IF ~_tfidf_vectorizer.fitted THEN R_Done(Raised("NotFittedError"))
                 ELSE [reader EXCEPT !.pc = "product",
                                     !.seen.vectorizer = _tfidf_vectorizer]
    /\ UNCHANGED <<docs, _tfidf_vectorizer, _tfidf_matrix, _bm25, call, pre, writer>>

\* line 74: the matrix is read again and multiplied by the query vector
R_Product ==
    /\ reader.pc = "product"
    /\ \/ /\ _tfidf_matrix = None
          /\ reader' = R_Done(Raised("TypeError"))
       \/ /\ _tfidf_matrix # None
          /\ _tfidf_matrix.rows # reader.seen.vectorizer.texts
          /\ reader' = R_Done(Raised("ValueError"))
       \/ /\ _tfidf_matrix # None
          /\ \E sc \in DenseScores(_tfidf_matrix) :
                reader' = [pc |-> "rank", query |-> reader.query, top_k |-> reader.top_k,
                           seen |-> [reader.seen EXCEPT !.matrix = _tfidf_matrix],
                           scores |-> sc, tag |-> "tfidf"]
    /\ UNCHANGED <<docs, _tfidf_vectorizer, _tfidf_matrix, _bm25, call, pre, writer>>

\* line 89
R_Bm25 ==
    /\ reader.pc = "bm25"
    /\ reader' = IF _bm25 = None THEN R_Done(Raised("AttributeError"))
                 ELSE [pc |-> "rank", query |-> reader.query, top_k |-> reader.top_k,
                       seen |-> [reader.seen EXCEPT !.bm25 = _bm25],
                       scores |-> BM25_score(_bm25, reader.query), tag |-> "bm25"]
    /\ UNCHANGED <<docs, _tfidf_vectorizer, _tfidf_matrix, _bm25, call, pre, writer>>

\* lines 75-86 and 90-101: the ranking, the reads of self.docs, the return
R_Rank ==
    /\ reader.pc = "rank"
    /\ \E run \in Ranked(docs, reader.scores, reader.query, reader.top_k, reader.tag) :
          reader' = R_Done(run.ret)
    /\ UNCHANGED <<docs, _tfidf_vectorizer, _tfidf_matrix, _bm25, call, pre, writer>>

NextConc ==
    \/ W_Call \/ W_Loop \/ W_Try \/ W_Fit \/ W_Store \/ W_Clear \/ W_Except
    \/ W_Build \/ W_Return
    \/ R_Call \/ R_Check \/ R_Select \/ R_Transform \/ R_Product \/ R_Bm25 \/ R_Rank

SpecConc == Init /\ [][NextConc]_vars

\* add_documents alone, statement by statement: one caller, no search
NextRebuild ==
    \/ W_Call \/ W_Loop \/ W_Try \/ W_Fit \/ W_Store \/ W_Clear \/ W_Except
    \/ W_Build \/ W_Return

SpecRebuild == Init /\ [][NextRebuild]_vars

(***************************************************************************)
(* The functions of the engine that read no field of it: _best_excerpt,    *)
(* semantic_compress, and _BM25.from_docs followed by score.  Each action  *)
(* is one call, made on the engine as constructed, on arguments drawn      *)
(* from the sets below; call keeps the arguments and what the call         *)
(* returned.                                                               *)
(***************************************************************************)
\* max_chars and max_sentences are drawn from -2..MaxArg and their defaults
MaxArg == 4
\* the indexes are built over at most MaxCorpus texts
MaxCorpus == 3

\* "ab.  cd ab! ab": three sentences
T_three ==
    <<"a", "b", ".", " ", " ", "c", "d", " ", "a", "b", "!", " ", "a", "b">>

\* "ab<TAB> cd": one sentence, a run of whitespace inside
T_tab == <<"a", "b", "\t", " ", "c", "d">>

\* "  "
T_blank == <<" ", " ">>

\* "zz"
T_zz == <<"z", "z">>

\* "ab cd"
T_ab_cd == <<"a", "b", " ", "c", "d">>

\* "A. B. C cat."
T_ABC == <<"A", ".", " ", "B", ".", " ", "C", " ", "c", "a", "t", ".">>

\* "cat"
Q_cat == <<"c", "a", "t">>

ExcerptTexts == {T_Cd_ab, T_three, T_tab, T_blank, T_a, T_ABC, <<>>}

TextQueries == {T_ab, T_cd, T_ab_cd, T_zz, Q_cat, <<>>}

MaxCharsArgs == (-2..MaxArg) \cup {DefaultMaxChars}

MaxSentencesArgs == (-2..MaxArg) \cup {DefaultMaxSentences}

CorpusTexts == {T_ab, T_abab, T_ab_cd, T_cd, T_a}

BestExcerpt ==
    /\ call.op = "init"
    /\ \E text \in ExcerptTexts, query \in TextQueries, max_chars \in MaxCharsArgs :
          call' = [op |-> "_best_excerpt", text |-> text, query |-> query,
                   max_chars |-> max_chars,
                   best |-> SelectedExcerpt(text, query),
                   ret |-> _best_excerpt(text, query, max_chars)]
    /\ UNCHANGED <<docs, _tfidf_vectorizer, _tfidf_matrix, _bm25, pre, writer, reader>>

SemanticCompress ==
    /\ call.op = "init"
    /\ \E text \in ExcerptTexts, query \in TextQueries, max_sentences \in MaxSentencesArgs :
          call' = [op |-> "semantic_compress", text |-> text, query |-> query,
                   max_sentences |-> max_sentences,
                   ret |-> semantic_compress(text, query, max_sentences)]
    /\ UNCHANGED <<docs, _tfidf_vectorizer, _tfidf_matrix, _bm25, pre, writer, reader>>

\* _BM25.from_docs(texts).score(query)
Bm25Score ==
    /\ call.op = "init"
    /\ \E texts \in SeqsUpTo(CorpusTexts, MaxCorpus), query \in TextQueries :
          call' = [op |-> "score", texts |-> texts, query |-> query,
                   bm |-> BM25_from_docs(texts),
                   ret |-> BM25_score(BM25_from_docs(texts), query)]
    /\ UNCHANGED <<docs, _tfidf_vectorizer, _tfidf_matrix, _bm25, pre, writer, reader>>

NextText == BestExcerpt \/ SemanticCompress \/ Bm25Score

SpecText == Init /\ [][NextText]_vars

(***************************************************************************)
(* The engine, one caller at a time, on the documents of the scenario of   *)
(* the specification: the calls are those of Spec, on other arguments, a   *)
(* search may follow a search, and semantic_compress is called on the      *)
(* engine.                                                                 *)
(***************************************************************************)
\* "The cat sat on the mat."
T_cat ==
    <<"T", "h", "e", " ", "c", "a", "t", " ", "s", "a", "t", " ", "o", "n", " ",
      "t", "h", "e", " ", "m", "a", "t", ".">>

\* "Dogs bark loudly at night."
T_dogs ==
    <<"D", "o", "g", "s", " ", "b", "a", "r", "k", " ", "l", "o", "u", "d", "l", "y",
      " ", "a", "t", " ", "n", "i", "g", "h", "t", ".">>

\* "cat mat"
Q_cat_mat == <<"c", "a", "t", " ", "m", "a", "t">>

\* "at night"
Q_at_night == <<"a", "t", " ", "n", "i", "g", "h", "t">>

ScenarioEntries == {[text |-> T_cat], [text |-> T_dogs]}

ScenarioQueries == {Q_cat_mat, Q_at_night, T_zz}

ScenarioTopKs == {1, 2}

AddScenario ==
    \E documents \in SeqsUpTo(ScenarioEntries, MaxBatch) :
        /\ Len(docs) + Cardinality(Accepted(documents)) <= MaxDocs
        /\ \E outcome \in DenseOutcomes : add_documents(documents, outcome)

SearchScenario == \E query \in ScenarioQueries, top_k \in ScenarioTopKs : search(query, top_k)

\* semantic_compress reads no field of the engine and assigns none
CompressScenario ==
    /\ \E text \in {T_ABC, T_three}, query \in {Q_cat, T_ab}, max_sentences \in {1, 2} :
          call' = [op |-> "semantic_compress", text |-> text, query |-> query,
                   max_sentences |-> max_sentences,
                   ret |-> semantic_compress(text, query, max_sentences)]
    /\ pre' = Snapshot
    /\ UNCHANGED <<docs, _tfidf_vectorizer, _tfidf_matrix, _bm25, writer, reader>>

NextScenario == AddScenario \/ SearchScenario \/ CompressScenario

SpecScenario == Init /\ [][NextScenario]_vars

(***************************************************************************)
(* Vocabulary of the properties.  A state is "after search" when the last  *)
(* completed call is a search that returned a ranking; call.idx[k] is the  *)
(* corpus position of the k-th result and call.scores[i] the score of the  *)
(* i-th document.                                                          *)
(***************************************************************************)
AfterAdd == call.op = "add_documents"

AfterSearch == call.op = "search"

Returned == AfterSearch /\ "results" \in DOMAIN call.ret

Ranking == Returned /\ "engine" \in DOMAIN call.ret

DenseHeld == _tfidf_vectorizer # None \/ _tfidf_matrix # None

Bm25Held == _bm25 # None

SharesToken(text, query) == Range(_tokenize(text)) \cap Range(_tokenize(query)) # {}

\* the entries of the last add_documents call that carry a text, in input order
AcceptedEntries == SelectSeq(call.documents, LAMBDA d : "text" \in DOMAIN d)

(***************************************************************************)
(* C1.  For a non-empty corpus and top_k > 0 the results are in descending *)
(* order of score and documents of equal score are in ascending order of   *)
(* insertion index.  The code ranks with np.argsort of the default kind,   *)
(* which leaves the order of equal scores open: this statement is violated.*)
(***************************************************************************)
C1_StableDescendingOrder ==
    (Ranking /\ call.top_k > 0) =>
        \A a, b \in 1..Len(call.idx) :
            a < b => \/ call.scores[call.idx[a]] > call.scores[call.idx[b]]
                     \/ /\ call.scores[call.idx[a]] = call.scores[call.idx[b]]
                        /\ call.idx[a] < call.idx[b]

(***************************************************************************)
(* C2.  As claimed: a document whose text is exactly the query is the      *)
(* first result.  Violated: under BM25 a longer document repeating the     *)
(* query's tokens scores higher, a query without tokens scores every       *)
(* document 0, and a second document of the same text ties.                *)
(***************************************************************************)
C2_ExactMatchRankedFirst ==
    (Ranking /\ call.top_k > 0) =>
        \A d \in 1..Len(docs) : docs[d].text = call.query => call.idx[1] = d

\* C2 as amended: under BM25, a document whose text is exactly the query and
\* holds at least one token has a strictly positive score, and every result
\* that shares no token with the query comes after it.
C2_ExactMatchBeforeUnrelated ==
    (Ranking /\ call.ret.engine = "bm25") =>
        \A d \in 1..Len(docs) :
            (docs[d].text = call.query /\ _tokenize(call.query) # <<>>) =>
                /\ call.scores[d] > 0
                /\ \A a \in 1..Len(call.idx) :
                       ~SharesToken(docs[call.idx[a]].text, call.query) =>
                           \E b \in 1..(a - 1) : call.idx[b] = d

\* C2's case: an exact match with a token, ranked ahead of a document that
\* shares no token with the query
C2_Witness ==
    /\ Ranking /\ call.ret.engine = "bm25" /\ Len(call.idx) = 2
    /\ docs[call.idx[1]].text = call.query
    /\ _tokenize(call.query) # <<>>
    /\ ~SharesToken(docs[call.idx[2]].text, call.query)

(***************************************************************************)
(* C3.  search with top_k <= 0 returns an empty result list.  The slice    *)
(* [:top_k] of the code drops the last -top_k positions for a negative     *)
(* top_k instead: this statement is violated.                              *)
(***************************************************************************)
C3_NonPositiveTopKIsEmpty ==
    (AfterSearch /\ call.top_k <= 0) => (Returned /\ call.ret.results = <<>>)

(***************************************************************************)
(* C4.  As claimed: in every state exactly one backend variant is active.  *)
(* Violated by the engine as constructed, which holds none.                *)
(***************************************************************************)
C4_ExactlyOneBackend == DenseHeld # Bm25Held

\* C4 as amended: the engine never holds state of both variants, the dense
\* vectorizer and matrix are set or unset together, and exactly one variant
\* is held whenever the corpus is non-empty.
C4_AtMostOneBackend ==
    /\ ~(DenseHeld /\ Bm25Held)
    /\ (_tfidf_vectorizer = None) = (_tfidf_matrix = None)
    /\ docs # <<>> => (DenseHeld # Bm25Held)

\* C4's case: a rebuild has replaced a BM25 index by the dense one
C4_Witness == AfterAdd /\ pre.bm25 # None /\ pre.docs # <<>> /\ DenseHeld

(***************************************************************************)
(* C5.  As claimed: a rebuild over an empty corpus leaves every backend    *)
(* field unset.  Violated when the dense attempt raises: the except branch *)
(* builds a BM25 index over zero documents.                                *)
(***************************************************************************)
C5_EmptyRebuildLeavesUnset ==
    (AfterAdd /\ docs = <<>>) =>
        (_tfidf_vectorizer = None /\ _tfidf_matrix = None /\ _bm25 = None)

\* C5 as amended: a rebuild over an empty corpus never builds the dense index;
\* it leaves the BM25 field as it was when the dense attempt does not raise and
\* sets it to an index over zero documents when it raises; a search on the
\* empty corpus returns the empty result list and raises nothing.
C5_EmptyRebuild ==
    /\ (AfterAdd /\ docs = <<>>) =>
          /\ _tfidf_vectorizer = None /\ _tfidf_matrix = None
          /\ call.outcome = "ok" => _bm25 = pre.bm25
          /\ call.outcome = "error" =>
                (_bm25 # None /\ _bm25.docs = <<>> /\ DOMAIN _bm25.idf = {}
                    /\ _bm25.avgdl.num = 0)
    /\ (AfterSearch /\ docs = <<>>) =>
          call.ret = [query |-> call.query, results |-> <<>>]

\* C5's case: a search on an empty corpus whose rebuild built the empty BM25 index
C5_Witness == AfterSearch /\ docs = <<>> /\ _bm25 # None

(***************************************************************************)
(* C6.  A search that runs while add_documents runs observes a complete    *)
(* backend: the dense vectorizer and matrix of one fit, or no dense field  *)
(* and a BM25 index; and it never fails for want of one.  The code takes   *)
(* no lock around the rebuild: this statement is violated under SpecConc.  *)
(***************************************************************************)
CompleteBackend(seen) ==
    \/ /\ seen.vectorizer # None /\ seen.matrix # None
       /\ seen.vectorizer.fitted
       /\ seen.vectorizer.texts = seen.matrix.rows
    \/ /\ seen.vectorizer = None /\ seen.matrix = None
       /\ seen.bm25 # None

C6_SearchObservesCompleteBackend ==
    /\ reader.pc = "rank" => CompleteBackend(reader.seen)
    /\ (reader.pc = "idle" /\ "ret" \in DOMAIN reader) => "raised" \notin DOMAIN reader.ret

(***************************************************************************)
(* C7.  Where search reads the corpus to build its results, the corpus     *)
(* holds as many documents as the backend it has scored against covers.    *)
(* add_documents appends before it rebuilds and takes no lock: this        *)
(* statement is violated under SpecConc.                                   *)
(***************************************************************************)
C7_ReaderSeesIndexedCorpus ==
    reader.pc = "rank" => Len(reader.scores) = Len(docs)

(***************************************************************************)
(* C8.  add_documents appends exactly the entries that carry a text, in    *)
(* input order, after the documents already stored, and returns added =    *)
(* the number of entries carrying a text and total = previous corpus size  *)
(* + added = corpus size after the call.                                   *)
(***************************************************************************)
C8_AddAppendsAccepted ==
    AfterAdd =>
        /\ Len(docs) = Len(pre.docs) + Len(AcceptedEntries)
        /\ SubSeq(docs, 1, Len(pre.docs)) = pre.docs
        /\ \A k \in 1..Len(AcceptedEntries) :
               docs[Len(pre.docs) + k].text = AcceptedEntries[k].text
        /\ call.ret.added = Len(AcceptedEntries)
        /\ call.ret.total = Len(pre.docs) + call.ret.added
        /\ call.ret.total = Len(docs)

\* C8's case: a call on a non-empty corpus whose first entry is skipped and
\* whose second is appended
C8_Witness ==
    /\ AfterAdd /\ pre.docs # <<>> /\ Len(call.documents) = 2
    /\ "text" \notin DOMAIN call.documents[1]
    /\ call.ret.added = 1

(***************************************************************************)
(* C9.  As claimed: an accepted entry without an id is stored with         *)
(* "doc_<n>", n its 1-based corpus position, an entry that supplies an id  *)
(* keeps it unchanged, and a missing source is stored as the empty string. *)
(* Violated by an entry that supplies the empty string as id: line 44      *)
(* replaces it by the default.                                             *)
(***************************************************************************)
\* "doc_<n>" written out, for n < 10
DocId(n) == <<"d", "o", "c", "_", DigitChars[n + 1]>>

C9_IdsAsSupplied ==
    AfterAdd =>
        \A k \in 1..Len(AcceptedEntries) :
            LET e == AcceptedEntries[k]
                n == Len(pre.docs) + k
            IN  /\ "id" \in DOMAIN e => docs[n].id = e.id
                /\ "id" \notin DOMAIN e => docs[n].id = DocId(n)
                /\ "source" \notin DOMAIN e => docs[n].source = <<>>

\* C9 as amended: an accepted entry whose id is missing or empty is stored with
\* "doc_<n>", n its 1-based corpus position (stored documents counted, skipped
\* entries not); a non-empty id is stored unchanged; a missing source is stored
\* as the empty string and a supplied one unchanged.
C9_DefaultIds ==
    AfterAdd =>
        \A k \in 1..Len(AcceptedEntries) :
            LET e == AcceptedEntries[k]
                n == Len(pre.docs) + k
            IN  /\ ("id" \in DOMAIN e /\ e.id # <<>>) => docs[n].id = e.id
                /\ ("id" \notin DOMAIN e \/ e.id = <<>>) => docs[n].id = DocId(n)
                /\ "source" \notin DOMAIN e => docs[n].source = <<>>
                /\ "source" \in DOMAIN e => docs[n].source = e.source

\* C9's case: after a stored document and a skipped entry, an entry with an
\* empty id is stored as the second document under the generated id
C9_Witness ==
    /\ AfterAdd /\ Len(pre.docs) = 1 /\ Len(call.documents) = 2
    /\ "text" \notin DOMAIN call.documents[1]
    /\ "text" \in DOMAIN call.documents[2]
    /\ "id" \in DOMAIN call.documents[2] /\ call.documents[2].id = <<>>
    /\ docs[2].id = <<"d", "o", "c", "_", "2">>

(***************************************************************************)
(* C10.  The corpus is append-only: every step leaves the corpus it starts *)
(* from as a prefix of the corpus it ends with, and a step that is not an  *)
(* add_documents call leaves the corpus unchanged.                         *)
(***************************************************************************)
C10_AppendOnly ==
    [][IsPrefix(docs, docs') /\ (call'.op # "add_documents" => docs' = docs)]_vars

\* C10's case: a call that appended to a non-empty corpus
C10_Witness == AfterAdd /\ pre.docs # <<>> /\ Len(docs) > Len(pre.docs)

(***************************************************************************)
(* C11.  A search on an empty corpus returns exactly {query, results: []}, *)
(* without an engine field; a search on a non-empty corpus returns a       *)
(* ranking that carries the engine field, "tfidf" when the dense index is  *)
(* held and "bm25" when the BM25 index is held.                            *)
(***************************************************************************)
C11_EngineTag ==
    AfterSearch =>
        /\ docs = <<>> => call.ret = [query |-> call.query, results |-> <<>>]
        /\ docs # <<>> =>
              /\ DOMAIN call.ret = {"query", "engine", "results"}
              /\ call.ret.engine \in {"tfidf", "bm25"}
              /\ (call.ret.engine = "tfidf") = DenseHeld
              /\ (call.ret.engine = "bm25") = Bm25Held

\* C11's case: a search on a corpus of two documents answered by the dense index
C11_Witness ==
    /\ Ranking /\ Len(docs) = 2 /\ call.ret.engine = "tfidf"
    /\ Len(call.ret.results) = 2

(***************************************************************************)
(* C12.  As claimed: add_documents([]) returns added = 0, leaves the       *)
(* corpus size unchanged and leaves the same backend variant held as       *)
(* before the call.  Violated: the call rebuilds, and the rebuild selects   *)
(* the variant by its own dense attempt (on a new engine whose dense       *)
(* attempt raises it builds a BM25 index where none was held).             *)
(***************************************************************************)
C12_EmptyAddKeepsBackend ==
    (AfterAdd /\ call.documents = <<>>) =>
        /\ call.ret.added = 0
        /\ call.ret.total = Len(pre.docs)
        /\ DenseHeld = (pre.vectorizer # None \/ pre.matrix # None)
        /\ Bm25Held = (pre.bm25 # None)

\* C12 as amended: add_documents([]) returns added = 0 and total = the corpus
\* size, leaves the corpus unchanged, and rebuilds: when the dense attempt of
\* this rebuild ends as the one that built the held backend did (it raises and
\* a BM25 index is held, or it succeeds and the dense index is held), the held
\* backend is rebuilt equal to what it was; otherwise the variant changes.
C12_EmptyAddRebuilds ==
    (AfterAdd /\ call.documents = <<>>) =>
        /\ call.ret = [added |-> 0, total |-> Len(pre.docs)]
        /\ docs = pre.docs
        /\ (call.outcome = "error" /\ pre.bm25 # None) =>
              (_bm25 = pre.bm25 /\ ~DenseHeld)
        /\ (call.outcome = "ok" /\ pre.vectorizer # None) =>
              (_tfidf_vectorizer = pre.vectorizer /\ _tfidf_matrix = pre.matrix
                  /\ ~Bm25Held)
        /\ (call.outcome = "error" /\ pre.bm25 = None) => (Bm25Held /\ ~DenseHeld)
        /\ (call.outcome = "ok" /\ pre.vectorizer = None /\ docs # <<>>) =>
              (DenseHeld /\ ~Bm25Held)

\* C12's case: add_documents([]) on a corpus of two documents under BM25,
\* rebuilt under BM25
C12_Witness ==
    /\ AfterAdd /\ call.documents = <<>> /\ Len(pre.docs) = 2
    /\ pre.bm25 # None /\ call.outcome = "error"

(***************************************************************************)
(* C13.  When the try block of the rebuild is left by an exception, at the *)
(* import or the constructor (before any field is assigned) or at the fit  *)
(* (after the new vectorizer is assigned), the rebuild ends with no dense  *)
(* field set and the BM25 index built over the whole current corpus, and   *)
(* add_documents returns its counts: nothing is raised to the caller.      *)
(***************************************************************************)
C13_FailureFallsBackToBm25 ==
    (writer.pc \in {"return", "idle"} /\ "raised" \in DOMAIN writer) =>
        /\ _tfidf_vectorizer = None /\ _tfidf_matrix = None
        /\ _bm25 = BM25_from_docs(TextsOf(docs))
        /\ writer.pc = "idle" =>
              /\ DOMAIN writer.ret = {"added", "total"}
              /\ writer.ret.total = Len(docs)
              /\ writer.ret.added \in 0..Len(docs)

\* C13's case: the fit raised on a corpus of two documents, one of them
\* appended by this call, and add_documents has returned
C13_Witness ==
    /\ writer.pc = "idle" /\ "raised" \in DOMAIN writer /\ writer.raised = 62
    /\ Len(docs) = 2 /\ writer.ret = [added |-> 1, total |-> 2]

(***************************************************************************)
(* C14.  Every add_documents call rebuilds, a call that accepts no entry   *)
(* included, and the backend held after a call over a non-empty corpus is  *)
(* decided by the dense attempt of that rebuild alone: the dense index     *)
(* over the whole corpus when it succeeds, the BM25 index over the whole   *)
(* corpus when it raises, whatever was held before.                        *)
(***************************************************************************)
C14_SelectionEvaluatedAfresh ==
    (AfterAdd /\ docs # <<>>) =>
        /\ call.outcome = "ok" =>
              /\ _tfidf_vectorizer = FittedVectorizer(TextsOf(docs))
              /\ _tfidf_matrix = FitMatrix(TextsOf(docs))
              /\ _bm25 = None
        /\ call.outcome = "error" =>
              /\ _tfidf_vectorizer = None /\ _tfidf_matrix = None
              /\ _bm25 = BM25_from_docs(TextsOf(docs))

\* C14's case: a call that accepts no entry switches a non-empty corpus from
\* BM25 to the dense index
C14_Witness ==
    /\ AfterAdd /\ Accepted(call.documents) = {} /\ pre.docs # <<>>
    /\ pre.bm25 # None /\ DenseHeld

\* the switch the other way: from the dense index to BM25
C14_SwitchToBm25 ==
    /\ AfterAdd /\ pre.docs # <<>> /\ pre.vectorizer # None /\ Bm25Held

(***************************************************************************)
(* C15.  Under BM25, for a non-empty corpus of N documents, a query none   *)
(* of whose tokens occurs in a document (the query without tokens          *)
(* included) and top_k > 0, search returns min(top_k, N) results, each of  *)
(* score 0, and they are the first min(top_k, N) documents in insertion    *)
(* order.  Every score is 0, so the order is the order np.argsort gives to *)
(* equal keys, which the default kind leaves open: this statement is       *)
(* violated.                                                               *)
(***************************************************************************)
C15_UnmatchedQueryKeepsInsertionOrder ==
    (/\ Ranking /\ call.ret.engine = "bm25" /\ call.top_k > 0
     /\ \A d \in 1..Len(docs) : ~SharesToken(docs[d].text, call.query)) =>
        /\ Len(call.ret.results) = Min(call.top_k, Len(docs))
        /\ \A k \in 1..Len(call.ret.results) :
               call.ret.results[k].score = 0 /\ call.idx[k] = k

(***************************************************************************)
(* C16.  When no sentence of the text shares a token with the query, or    *)
(* the text has no sentence, _best_excerpt returns the whole stripped      *)
(* text, whitespace-collapsed and truncated to max_chars.  The loop of     *)
(* lines 121-127 starts from best_score = -1, so the first sentence is     *)
(* selected with an overlap of 0: this statement is violated by a text of  *)
(* several sentences.                                                      *)
(***************************************************************************)
C16_NoOverlapGivesFullText ==
    (/\ call.op = "_best_excerpt"
     /\ \A i \in 1..Len(_sentences(call.text)) :
            Overlap(Range(_tokenize(call.query)), _sentences(call.text)[i]) = 0) =>
        call.ret = Truncate(CollapseWs(Strip(call.text)), call.max_chars)

(***************************************************************************)
(* C17.  As claimed: for every text, query and max_chars the excerpt has   *)
(* at most max_chars characters, and when the selected string is longer    *)
(* than max_chars the excerpt ends with the ellipsis and has exactly       *)
(* max_chars characters.  Violated for max_chars <= 0, where no string     *)
(* satisfies both parts.                                                   *)
(***************************************************************************)
C17_ExcerptWithinMaxChars ==
    call.op = "_best_excerpt" =>
        /\ Len(call.ret) <= call.max_chars
        /\ Len(call.best) > call.max_chars =>
              (call.ret[Len(call.ret)] = Ellipsis /\ Len(call.ret) = call.max_chars)

\* C17 as amended: for max_chars >= 1 the excerpt has at most max_chars
\* characters; it is the selected string when that has at most max_chars
\* characters, and otherwise its first max_chars - 1 characters followed by the
\* ellipsis, max_chars characters in all.  For max_chars <= 0 and a selected
\* string longer than max_chars the excerpt is the selected string without its
\* last 1 - max_chars characters, followed by the ellipsis: longer than
\* max_chars.
C17_ExcerptWithinPositiveMaxChars ==
    call.op = "_best_excerpt" =>
        /\ Len(call.best) <= call.max_chars => call.ret = call.best
        /\ (call.max_chars >= 1 /\ Len(call.best) > call.max_chars) =>
              /\ Len(call.ret) = call.max_chars
              /\ call.ret[call.max_chars] = Ellipsis
              /\ SubSeq(call.ret, 1, call.max_chars - 1)
                    = SubSeq(call.best, 1, call.max_chars - 1)
        /\ call.max_chars >= 1 => Len(call.ret) <= call.max_chars
        /\ (call.max_chars <= 0 /\ Len(call.best) > call.max_chars) =>
              /\ Len(call.ret) = Max(Len(call.best) + call.max_chars - 1, 0) + 1
              /\ call.ret[Len(call.ret)] = Ellipsis
              /\ Len(call.ret) > call.max_chars

\* C17's case: a selected sentence of six characters cut to max_chars = 3
C17_Witness ==
    /\ call.op = "_best_excerpt" /\ call.max_chars = 3 /\ Len(call.best) = 6
    /\ call.ret = <<"c", "d", Ellipsis>>

(***************************************************************************)
(* C18.  As claimed: for every text, query and integer k,                  *)
(* semantic_compress with max_sentences = k returns at most k sentences,   *)
(* each an element of the sentence split of the text.  Violated for k < 0: *)
(* the slices [:k] drop the last -k sentences and keep the others.         *)
(***************************************************************************)
C18_AtMostKSentences ==
    call.op = "semantic_compress" =>
        /\ Len(call.ret.sentences) <= call.max_sentences
        /\ Range(call.ret.sentences) \subseteq Range(_sentences(call.text))

\* C18 as amended: for k >= 0 semantic_compress returns at most k sentences,
\* for k < 0 at most n + k (n the number of sentences of the text, and none
\* when n + k <= 0); each returned sentence is an element of the sentence split
\* of the text, unchanged, and compressed is the returned sentences joined by
\* single spaces.
C18_AtMostKSentencesOfSplit ==
    call.op = "semantic_compress" =>
        LET n == Len(_sentences(call.text))
            k == call.max_sentences
        IN  /\ k >= 0 => Len(call.ret.sentences) <= k
            /\ k < 0 => Len(call.ret.sentences) <= Max(n + k, 0)
            /\ Range(call.ret.sentences) \subseteq Range(_sentences(call.text))
            /\ call.ret.compressed = JoinSpace(call.ret.sentences)
            /\ call.ret.max_sentences = k

\* C18's case: two of three sentences kept, the longest first
C18_Witness ==
    /\ call.op = "semantic_compress" /\ call.max_sentences = 2
    /\ Len(_sentences(call.text)) = 3
    /\ call.ret.sentences = << <<"c", "d", " ", "a", "b", "!">>, <<"a", "b", ".">> >>

(***************************************************************************)
(* C19.  For every corpus and query, every BM25 score is non-negative:     *)
(* every idf of the index is positive, the average length used by score is *)
(* positive and so is every denominator of line 170.                       *)
(***************************************************************************)
C19_ScoresNonNegative ==
    call.op = "score" =>
        /\ \A i \in 1..Len(call.ret) : call.ret[i] >= 0
        /\ \A t \in DOMAIN call.bm.idf : call.bm.idf[t] > 0
        /\ AvgDl(call.bm).num > 0 /\ AvgDl(call.bm).den > 0
        /\ \A i \in 1..Len(call.bm.docs) :
               \A f \in 0..Len(call.bm.docs[i]) : Denom(call.bm, call.bm.docs[i], f) > 0

\* C19's case: three documents, a query term held by all of them (the least
\* idf), a positive score and a score of 0 for a document without tokens
C19_Witness ==
    /\ call.op = "score" /\ Len(call.texts) = 3
    /\ \E t \in Range(_tokenize(call.query)) :
           /\ t \in DOMAIN call.bm.idf
           /\ DocFreq(call.bm.docs, t) = 2
    /\ \E i, j \in 1..3 : call.ret[i] > 0 /\ call.ret[j] = 0 /\ call.bm.docs[j] = <<>>

(***************************************************************************)
(* C20.  As claimed: for a query that holds the term t, of two documents   *)
(* of the same length under the same index, the one that holds t more      *)
(* often scores at least as much.  Violated when the query holds another   *)
(* term: with the length fixed, more occurrences of t are fewer of the     *)
(* other terms, and the score may fall.                                    *)
(***************************************************************************)
C20_TfMonotone ==
    call.op = "score" =>
        \A i, j \in 1..Len(call.bm.docs) :
            \A t \in Range(_tokenize(call.query)) :
                (/\ Len(call.bm.docs[i]) = Len(call.bm.docs[j])
                 /\ TermFreq(call.bm.docs[i], t) <= TermFreq(call.bm.docs[j], t)) =>
                    call.ret[i] <= call.ret[j]

\* C20 as amended: for a query that holds the term t, of two documents of the
\* same length under the same index that hold each other term of the query
\* equally often, the one that holds t more often scores at least as much.
C20_TfMonotoneOtherTermsFixed ==
    call.op = "score" =>
        \A i, j \in 1..Len(call.bm.docs) :
            \A t \in Range(_tokenize(call.query)) :
                (/\ Len(call.bm.docs[i]) = Len(call.bm.docs[j])
                 /\ TermFreq(call.bm.docs[i], t) <= TermFreq(call.bm.docs[j], t)
                 /\ \A u \in Range(_tokenize(call.query)) \ {t} :
                        TermFreq(call.bm.docs[i], u) = TermFreq(call.bm.docs[j], u)) =>
                    call.ret[i] <= call.ret[j]

\* C20's case: two documents of two tokens, the query's term once in one and
\* twice in the other, which scores strictly more
C20_Witness ==
    /\ call.op = "score"
    /\ \E i, j \in 1..Len(call.bm.docs) :
           \E t \in Range(_tokenize(call.query)) :
               /\ Len(call.bm.docs[i]) = 2 /\ Len(call.bm.docs[j]) = 2
               /\ TermFreq(call.bm.docs[i], t) = 1
               /\ TermFreq(call.bm.docs[j], t) = 2
               /\ call.ret[i] > 0 /\ call.ret[i] < call.ret[j]

(***************************************************************************)
(* C21.  As claimed: whichever backend answers, every document that holds  *)
(* a token of the query has a strictly positive score and comes before     *)
(* every result that holds none, and the scenario ("The cat sat on the     *)
(* mat.", "Dogs bark loudly at night.", search "cat mat", top_k = 2)       *)
(* returns two results, doc_1 first with the strictly greater score.       *)
(* Violated under the dense backend, whose scores are not those of the     *)
(* tokens of _tokenize.                                                    *)
(***************************************************************************)
MatchingFirst ==
    /\ \A d \in 1..Len(docs) :
           SharesToken(docs[d].text, call.query) => call.scores[d] > 0
    /\ \A a, b \in 1..Len(call.idx) :
           (/\ SharesToken(docs[call.idx[a]].text, call.query)
            /\ ~SharesToken(docs[call.idx[b]].text, call.query)) => a < b

CatMatScenario ==
    /\ TextsOf(docs) = <<T_cat, T_dogs>>
    /\ call.query = Q_cat_mat /\ call.top_k = 2

CatMatAnswer ==
    /\ Len(call.ret.results) = 2
    /\ call.ret.results[1].id = <<"d", "o", "c", "_", "1">>
    /\ call.ret.results[1].score > 0
    /\ call.ret.results[1].score > call.ret.results[2].score

C22_TagNamesScoringBackend ==
    Ranking =>
        /\ call.ret.engine = "tfidf" =>
              /\ _tfidf_vectorizer = FittedVectorizer(TextsOf(docs))
              /\ _tfidf_matrix = FitMatrix(TextsOf(docs))
              /\ call.scores \in DenseScores(_tfidf_matrix)
              /\ _bm25 = None
        /\ call.ret.engine = "bm25" =>
              /\ _bm25 = BM25_from_docs(TextsOf(docs))
              /\ call.scores = BM25_score(_bm25, call.query)
              /\ _tfidf_vectorizer = None /\ _tfidf_matrix = None
        /\ \A k \in 1..Len(call.ret.results) :
               call.ret.results[k].score = call.scores[call.idx[k]]

\* C22's case: a search answered by BM25 with two different positive scores
C22_Witness ==
    /\ Ranking /\ call.ret.engine = "bm25" /\ Len(call.ret.results) = 2
    /\ call.ret.results[1].score > call.ret.results[2].score
    /\ call.ret.results[2].score > 0

(***************************************************************************)
(* C23.  For every text of which some sentence shares a token with the     *)
(* query, _best_excerpt selects the sentence of the highest overlap, and   *)
(* among the sentences of that overlap the first of the text.              *)
(***************************************************************************)
C23_FirstSentenceOfMaxOverlap ==
    LET sents == _sentences(call.text)
        q == Range(_tokenize(call.query))
    IN  (/\ call.op = "_best_excerpt"
         /\ \E i \in 1..Len(sents) : Overlap(q, sents[i]) > 0) =>
            \E i \in 1..Len(sents) :
                /\ \A j \in 1..Len(sents) : Overlap(q, sents[j]) <= Overlap(q, sents[i])
                /\ \A j \in 1..(i - 1) : Overlap(q, sents[j]) < Overlap(q, sents[i])
                /\ call.best = CollapseWs(sents[i])
                /\ call.ret = Truncate(CollapseWs(sents[i]), call.max_chars)

\* C23's case: three sentences that share one token each with the query, the
\* first selected
C23_Witness ==
    /\ call.op = "_best_excerpt" /\ call.text = T_three /\ call.query = T_ab
    /\ call.best = <<"a", "b", ".">>

(***************************************************************************)
(* Vocabulary of semantic_compress: the sentences of the text of the last  *)
(* call, their overlaps with its query, and the order of the ranking:      *)
(* higher overlap first, then the longer sentence, then the earlier one.   *)
(***************************************************************************)
Sent == _sentences(call.text)

Ov(i) == Overlap(Range(_tokenize(call.query)), Sent[i])

Pos == {i \in 1..Len(Sent) : Ov(i) > 0}

RanksBefore(i, j) ==
    \/ Ov(i) > Ov(j)
    \/ Ov(i) = Ov(j) /\ Len(Sent[i]) > Len(Sent[j])
    \/ Ov(i) = Ov(j) /\ Len(Sent[i]) = Len(Sent[j]) /\ i < j

\* the p-th returned sentence is the sentence of rank p among those of
\* positive overlap
TopRanked ==
    \A p \in 1..Len(call.ret.sentences) :
        \E i \in Pos :
            /\ Cardinality({j \in Pos : RanksBefore(j, i)}) = p - 1
            /\ call.ret.sentences[p] = Sent[i]

(***************************************************************************)
(* C24.  As claimed: when some sentence has a positive overlap,            *)
(* semantic_compress returns at most max_sentences sentences, all of       *)
(* positive overlap, and they are the top of the ranking in its order.     *)
(* Violated for max_sentences < 0, where the slice keeps all but the last  *)
(* -max_sentences of the ranking.                                          *)
(***************************************************************************)
C24_TopRankedPositive ==
    (call.op = "semantic_compress" /\ Pos # {}) =>
        (Len(call.ret.sentences) <= call.max_sentences /\ TopRanked)

\* C24 as amended: when some sentence has a positive overlap, semantic_compress
\* returns the top of the ranking of the sentences of positive overlap, in its
\* order: min(max_sentences, their number) of them for max_sentences >= 0, and
\* min(n + max_sentences, their number) for max_sentences < 0 (none when
\* n + max_sentences <= 0), n being the number of sentences.
C24_TopRankedPositiveUpToK ==
    (call.op = "semantic_compress" /\ Pos # {}) =>
        /\ TopRanked
        /\ call.max_sentences >= 0 =>
              Len(call.ret.sentences) = Min(call.max_sentences, Cardinality(Pos))
        /\ call.max_sentences < 0 =>
              Len(call.ret.sentences)
                  = Min(Max(Len(Sent) + call.max_sentences, 0), Cardinality(Pos))

\* C24's case: the scenario semantic_compress("A. B. C cat.", "cat", 1)
C24_Witness ==
    /\ call.op = "semantic_compress" /\ call.text = T_ABC /\ call.query = Q_cat
    /\ call.max_sentences = 1
    /\ call.ret.sentences = << <<"C", " ", "c", "a", "t", ".">> >>

\* c is the strings of ss in their order, one space between two of them
SpaceJoined(c, ss) ==
    LET off(p) == SumSeq([r \in 1..(p - 1) |-> Len(ss[r]) + 1])
    IN  /\ Len(c) = SumSeq([r \in 1..Len(ss) |-> Len(ss[r])]) + Max(Len(ss) - 1, 0)
        /\ \A p \in 1..Len(ss) :
               /\ SubSeq(c, off(p) + 1, off(p) + Len(ss[p])) = ss[p]
               /\ p > 1 => c[off(p)] = " "

(***************************************************************************)
(* C25.  As claimed: when no sentence has a positive overlap,              *)
(* semantic_compress returns the first max_sentences sentences of the text *)
(* in their order (none for max_sentences <= 0), and in every case         *)
(* compressed is the returned sentences joined by single spaces and        *)
(* max_sentences is the argument.  Violated for max_sentences < 0, where   *)
(* the slice returns all but the last -max_sentences sentences.            *)
(***************************************************************************)
C25_FallbackFirstK ==
    call.op = "semantic_compress" =>
        /\ Pos = {} =>
              call.ret.sentences
                  = SubSeq(Sent, 1, Min(Max(call.max_sentences, 0), Len(Sent)))
        /\ SpaceJoined(call.ret.compressed, call.ret.sentences)
        /\ call.ret.max_sentences = call.max_sentences

\* C25 as amended: when no sentence has a positive overlap, semantic_compress
\* returns, in their order, the first min(max_sentences, n) sentences of the
\* text for max_sentences >= 0 and the first n + max_sentences for
\* max_sentences < 0 (none when n + max_sentences <= 0); in every case
\* compressed is the returned sentences joined by single spaces and
\* max_sentences is the argument.
C25_FallbackSlice ==
    call.op = "semantic_compress" =>
        /\ (Pos = {} /\ call.max_sentences >= 0) =>
              call.ret.sentences = SubSeq(Sent, 1, Min(call.max_sentences, Len(Sent)))
        /\ (Pos = {} /\ call.max_sentences < 0) =>
              call.ret.sentences = SubSeq(Sent, 1, Max(Len(Sent) + call.max_sentences, 0))
        /\ SpaceJoined(call.ret.compressed, call.ret.sentences)
        /\ call.ret.max_sentences = call.max_sentences

\* C25's case: no overlap, the first two of three sentences returned and joined
C25_Witness ==
    /\ call.op = "semantic_compress" /\ call.text = T_three /\ call.query = T_zz
    /\ call.max_sentences = 2
    /\ call.ret.compressed = <<"a", "b", ".", " ", "c", "d", " ", "a", "b", "!">>

(***************************************************************************)
(* C26.  With one caller at a time, whenever the corpus is non-empty the   *)
(* engine holds either the dense vectorizer and matrix and no BM25 index,  *)
(* or the BM25 index and neither dense field; the vectorizer is never set  *)
(* without the matrix; and a search never fails for want of a backend: it  *)
(* raises nothing.                                                         *)
(***************************************************************************)
C26_OneBackendWhenNonEmpty ==
    /\ docs # <<>> =>
          \/ /\ _tfidf_vectorizer # None /\ _tfidf_matrix # None /\ _bm25 = None
             /\ _tfidf_vectorizer.fitted
          \/ _tfidf_vectorizer = None /\ _tfidf_matrix = None /\ _bm25 # None
    /\ _tfidf_vectorizer # None => _tfidf_matrix # None
    /\ AfterSearch => "raised" \notin DOMAIN call.ret

\* C26's case: a search on a corpus of one document answered by the dense
\* index, top_k above the corpus size
C26_Witness ==
    /\ Ranking /\ Len(docs) = 1 /\ call.top_k = 2 /\ call.ret.engine = "tfidf"
    /\ Len(call.ret.results) = 1

(***************************************************************************)
(* C27.  Whenever the corpus is non-empty, the backend held covers exactly *)
(* its documents in corpus order: the i-th tokenized entry of the BM25     *)
(* index is the tokenization of the i-th text, the i-th row of the dense   *)
(* matrix is fitted from the i-th text; so the score list of a search has  *)
(* one score per document and every index of its ranking is a corpus       *)
(* position.                                                               *)
(***************************************************************************)
C27_BackendCoversCorpus ==
    docs # <<>> =>
        /\ _bm25 # None =>
              /\ Len(_bm25.docs) = Len(docs)
              /\ \A i \in 1..Len(docs) : _bm25.docs[i] = _tokenize(docs[i].text)
        /\ _tfidf_matrix # None =>
              /\ Len(_tfidf_matrix.rows) = Len(docs)
              /\ \A i \in 1..Len(docs) : _tfidf_matrix.rows[i] = docs[i].text
        /\ Ranking =>
              /\ Len(call.scores) = Len(docs)
              /\ \A k \in 1..Len(call.idx) : call.idx[k] \in 1..Len(docs)

\* C27's case: a BM25 index over two documents, the second without a token
C27_Witness ==
    /\ AfterAdd /\ Len(docs) = 2 /\ _bm25 # None
    /\ _bm25.docs[1] # <<>> /\ _bm25.docs[2] = <<>>

(***************************************************************************)
(* C29.  For a non-empty corpus of N documents and top_k >= 0, search      *)
(* returns exactly min(top_k, N) results; they refer to pairwise distinct  *)
(* corpus positions; the id, source and score of each are those of its     *)
(* position; and the scores do not increase along the list.                *)
(***************************************************************************)
C29_ResultsWellFormed ==
    (Ranking /\ call.top_k >= 0) =>
        /\ Len(call.ret.results) = Min(call.top_k, Len(docs))
        /\ Len(call.idx) = Len(call.ret.results)
        /\ \A a, b \in 1..Len(call.idx) : a # b => call.idx[a] # call.idx[b]
        /\ \A k \in 1..Len(call.ret.results) :
               /\ call.idx[k] \in 1..Len(docs)
               /\ call.ret.results[k].id = docs[call.idx[k]].id
               /\ call.ret.results[k].source = docs[call.idx[k]].source
               /\ call.ret.results[k].score = call.scores[call.idx[k]]
        /\ \A k \in 1..(Len(call.ret.results) - 1) :
               call.ret.results[k].score >= call.ret.results[k + 1].score

\* C29's case: top_k = 1 on two documents, the second with the higher score
C29_Witness ==
    /\ Ranking /\ Len(docs) = 2 /\ call.top_k = 1
    /\ call.idx = <<2>> /\ call.scores[2] > call.scores[1]
    /\ call.ret.results[1].id = <<"x">>

(***************************************************************************)
(* C30.  A document stored with a generated id has the id "doc_<n>" of its *)
(* corpus position n, and the generated ids of different positions differ; *)
(* so when two documents have the same id, at most one of them has the     *)
(* generated one, and the other has an id the caller supplied.             *)
(***************************************************************************)
\* the positions whose id the last add_documents call generated
GeneratedByCall ==
    {Len(pre.docs) + k : k \in {k \in 1..Len(AcceptedEntries) :
        "id" \notin DOMAIN AcceptedEntries[k] \/ AcceptedEntries[k].id = <<>>}}

C30_GeneratedIdsDistinct ==
    /\ \A m, n \in 1..(10 * MaxDocs + 1) : m # n => DefaultId(m) # DefaultId(n)
    /\ AfterAdd =>
          \A n \in GeneratedByCall :
              /\ docs[n].id = DefaultId(n)
              /\ \A m \in 1..Len(docs) :
                     (m # n /\ docs[m].id = docs[n].id) =>
                         (m \notin GeneratedByCall /\ docs[m].id # DefaultId(m))

\* C30's case: a supplied id "doc_2" at position 1 and the generated "doc_2" at
\* position 2
C30_Witness ==
    /\ AfterAdd /\ Len(docs) = 2 /\ 2 \in GeneratedByCall
    /\ docs[1].id = docs[2].id

(***************************************************************************)
(* C28.  search and semantic_compress are read-only: a step that is one of *)
(* these calls leaves the corpus, the dense vectorizer and matrix and the  *)
(* BM25 index as they were.  A search that follows a search with the same  *)
(* arguments therefore reads the same fields: it answers with the same     *)
(* query and engine tag, from the same BM25 scores, with as many results   *)
(* and the same scores along the result list, and with the same response   *)
(* when no two BM25 scores are equal.  (The order np.argsort gives to      *)
(* equal scores and the values of the dense product are left open in       *)
(* Ranked and DenseScores; each is a function of its arguments in any one  *)
(* build.)                                                                 *)
(***************************************************************************)
ResultScores(ret) == [k \in 1..Len(ret.results) |-> ret.results[k].score]

NoTies(scores) == \A i, j \in 1..Len(scores) : i # j => scores[i] # scores[j]

====
